---------------------------- MODULE Spec2Model ----------------------------
(***************************************************************************)
(* Model of src/Example.py: a NetworkController that apportions the power  *)
(* drawn by trains among the substations within range of each train.       *)
(*                                                                         *)
(* Numbers.  Positions are whole kilometres.  Powers are exact quantities  *)
(* counted in units of 1/200 MW, written MW(n); with this unit every       *)
(* product draw * (max_range - distance) / max_range that the model forms  *)
(* is a whole number, so the arithmetic below is the exact arithmetic of   *)
(* the Python expressions (rounding of binary floating point is not        *)
(* modelled).                                                              *)
(*                                                                         *)
(* Registries.  A Python dict keeps its keys in insertion order and        *)
(* assigning to a key that is present keeps the key's place; a registry is *)
(* therefore a sequence of records with pairwise distinct identifiers.     *)
(* The identifier i stands for "SUB_i" (resp. "TRAIN_i").                  *)
(***************************************************************************)
EXTENDS Integers, Sequences, FiniteSets, TLC

VARIABLES
    substations,   \* NetworkController.substations, in insertion order
    trains,        \* NetworkController.trains, in insertion order
    track_length,  \* NetworkController.track_length
    power_config,  \* the PowerConfig shared by the trains
    pc,            \* where the driver of the controller stands
    attributed,    \* history: load each train put on each substation in the pass just made
    rerun,         \* history: the pass just made began at a tick boundary, nothing changed since
    added,         \* history: coordinates of the substations passed to add_substation
    lastCall,      \* history: the last registration call and whether its id was present
    query          \* result of the last get_nearest_substations query

vars == <<substations, trains, track_length, power_config, pc,
          attributed, rerun, added, lastCall, query>>

----------------------------------------------------------------------------
(* Bounds of the model *)

NumSubstations == 2
NumTrains == 2

SubIds == 1..NumSubstations
TrainIds == 1..NumTrains

MW(n) == n * 200

SubPositions == {-1, 0, 8}
TrainPositions == {4, 18}
Thresholds == {MW(4)}
CruisingPowers == {MW(0), MW(10)}
QueryPositions == {0, 4, 18}
QueryDistances == {4, 10}

----------------------------------------------------------------------------
(* Plain helpers *)

Abs(a) == IF a < 0 THEN -a ELSE a
Min(a, b) == IF a <= b THEN a ELSE b
Max(a, b) == IF a >= b THEN a ELSE b

RECURSIVE SumSeq(_)
SumSeq(s) == IF s = <<>> THEN 0 ELSE Head(s) + SumSeq(Tail(s))

RECURSIVE SumOver(_, _)
SumOver(f, S) ==
    IF S = {} THEN 0
    ELSE LET e == CHOOSE e \in S : TRUE IN f[e] + SumOver(f, S \ {e})

Perms(n) == {f \in [1..n -> 1..n] : \A i, j \in 1..n : f[i] = f[j] => i = j}

RECURSIVE SetMax(_)
SetMax(S) ==
    LET e == CHOOSE e \in S : TRUE
    IN IF S = {e} THEN e ELSE Max(e, SetMax(S \ {e}))

----------------------------------------------------------------------------
(* The classes of src/Example.py *)

TrainPhase == {"cruising", "coasting", "braking"}

\* main: the PowerConfig derived from the cruising power
MakePowerConfig(cruising_power) ==
    [cruising_power |-> cruising_power,
     coasting_power |-> (cruising_power * 2) \div 10,
     braking_regeneration |-> -((cruising_power * 15) \div 100)]

\* Position.distance_to
distance_to(x, other) == Abs(x - other)

\* Train.__init__
NewTrain(train_id, x) ==
    [train_id |-> train_id, x |-> x, current_phase |-> "cruising"]

\* Train.get_current_power_draw
get_current_power_draw(train) ==
    IF train.current_phase = "cruising" THEN power_config.cruising_power
    ELSE IF train.current_phase = "coasting" THEN power_config.coasting_power
    ELSE power_config.braking_regeneration

\* Substation.__init__
NewSubstation(sub_id, max_power, x) ==
    [sub_id |-> sub_id, max_power |-> max_power, x |-> x,
     is_congested |-> FALSE, current_load |-> 0]

max_range == 10

\* a slip in the decay: the factor grows with the distance
calculate_power_contribution_growing(sub, train) ==
    LET distance == distance_to(sub.x, train.x)
    IN IF distance > max_range THEN 0
       ELSE (get_current_power_draw(train) * distance) \div max_range

\* Substation.calculate_power_contribution
calculate_power_contribution(sub, train) ==
    LET distance == distance_to(sub.x, train.x)
    IN IF distance > max_range THEN 0
       ELSE (get_current_power_draw(train) * (max_range - distance)) \div max_range

\* a slip in the comparison: congested already at the threshold
update_congestion_status_at_threshold(sub) ==
    [sub EXCEPT !.is_congested = (sub.current_load >= sub.max_power)]

\* Substation.update_congestion_status
update_congestion_status(sub) ==
    [sub EXCEPT !.is_congested = (sub.current_load > sub.max_power)]

----------------------------------------------------------------------------
(* Registries: dict assignment d[key] = value *)

IndexOfSub(subs, sub_id) ==
    IF \E i \in DOMAIN subs : subs[i].sub_id = sub_id
    THEN CHOOSE i \in DOMAIN subs : subs[i].sub_id = sub_id
    ELSE 0

IndexOfTrain(trs, train_id) ==
    IF \E i \in DOMAIN trs : trs[i].train_id = train_id
    THEN CHOOSE i \in DOMAIN trs : trs[i].train_id = train_id
    ELSE 0

\* a slip in the registration: an identifier that is present keeps its old entry
PutSubstationKeepOld(subs, sub) ==
    LET i == IndexOfSub(subs, sub.sub_id)
    IN IF i = 0 THEN Append(subs, sub) ELSE subs

\* self.substations[substation.sub_id] = substation
PutSubstation(subs, sub) ==
    LET i == IndexOfSub(subs, sub.sub_id)
    IN IF i = 0 THEN Append(subs, sub) ELSE [subs EXCEPT ![i] = sub]

\* self.trains[train.train_id] = train
PutTrain(trs, train) ==
    LET i == IndexOfTrain(trs, train.train_id)
    IN IF i = 0 THEN Append(trs, train) ELSE [trs EXCEPT ![i] = train]

----------------------------------------------------------------------------
(* NetworkController.get_nearest_substations *)

default_max_distance == 10

\* the loop of get_nearest_substations: the pairs (sub, distance) in range
RECURSIVE NearbySubs(_, _, _)
NearbySubs(subs, position, max_distance) ==
    IF subs = <<>> THEN <<>>
    ELSE LET sub == Head(subs)
             distance == distance_to(sub.x, position)
             rest == NearbySubs(Tail(subs), position, max_distance)
         IN IF distance <= max_distance
            THEN <<[sub_id |-> sub.sub_id, distance |-> distance]>> \o rest
            ELSE rest

\* a slip in the sort: e goes before the elements whose key equals its own
RECURSIVE InsertByDistanceUnstable(_, _)
InsertByDistanceUnstable(sorted, e) ==
    IF sorted = <<>> THEN <<e>>
    ELSE IF Head(sorted).distance < e.distance
         THEN <<Head(sorted)>> \o InsertByDistanceUnstable(Tail(sorted), e)
         ELSE <<e>> \o sorted

\* one step of a stable sort: e goes after every element whose key is <= its own
RECURSIVE InsertByDistance(_, _)
InsertByDistance(sorted, e) ==
    IF sorted = <<>> THEN <<e>>
    ELSE IF Head(sorted).distance <= e.distance
         THEN <<Head(sorted)>> \o InsertByDistance(Tail(sorted), e)
         ELSE <<e>> \o sorted

\* sorted(nearby_subs, key=lambda x: x[1]); Python's sort is stable
RECURSIVE SortedByDistance(_)
SortedByDistance(pairs) ==
    IF pairs = <<>> THEN <<>>
    ELSE InsertByDistance(SortedByDistance(SubSeq(pairs, 1, Len(pairs) - 1)),
                          pairs[Len(pairs)])

get_nearest_substations(subs, position, max_distance) ==
    SortedByDistance(NearbySubs(subs, position, max_distance))

----------------------------------------------------------------------------
(* NetworkController.update_power_distribution *)

\* a slip: the loads of the previous pass are kept
KeepLoads(subs) == subs

\* the first loop: sub.current_load = 0.0 for every substation
ResetLoads(subs) == [i \in DOMAIN subs |-> [subs[i] EXCEPT !.current_load = 0]]

\* a slip: the inner loop never breaks
NeverExhausted(remaining_power) == FALSE

\* the guard of the inner loop: break when nothing remains to distribute
Exhausted(remaining_power) == remaining_power <= 0

\* a slip: the contribution is not capped by what remains
UncappedContribution(contribution, remaining_power, sub) == contribution

\* a slip: a substation already loaded beyond its threshold gives nothing more
UncongestedContribution(contribution, remaining_power, sub) ==
    IF sub.current_load > sub.max_power THEN 0
    ELSE Min(contribution, remaining_power)

\* actual_contribution = min(contribution, remaining_power)
ActualContribution(contribution, remaining_power, sub) ==
    Min(contribution, remaining_power)

NoAttribution == [s \in SubIds |-> 0]

\* the inner loop over nearby_subs; st = [subs, attr] carries the registry
\* with its accumulating loads and what this train has been given so far
RECURSIVE DistributeWalk(_, _, _, _)
DistributeWalk(nearby, train, remaining_power, st) ==
    IF nearby = <<>> \/ Exhausted(remaining_power) THEN st
    ELSE LET sub_id == Head(nearby).sub_id
             i == IndexOfSub(st.subs, sub_id)
             sub == st.subs[i]
             contribution == calculate_power_contribution(sub, train)
             actual_contribution ==
                 ActualContribution(contribution, remaining_power, sub)
         IN DistributeWalk(
                Tail(nearby), train, remaining_power - actual_contribution,
                [subs |-> [st.subs EXCEPT ![i].current_load = @ + actual_contribution],
                 attr |-> [st.attr EXCEPT ![sub_id] = @ + actual_contribution]])

\* a slip: break instead of continue, the trains after the skipped one are dropped
BreakAfterSkip(rest) == <<>>

\* `continue` for a train with no substation in range: the loop goes on with
\* the trains that follow
ContinueAfterSkip(rest) == rest

\* the loop over self.trains.values(); out = [subs, attributed]
RECURSIVE ProcessTrains(_, _)
ProcessTrains(trs, out) ==
    IF trs = <<>> THEN out
    ELSE LET train == Head(trs)
             nearby_subs ==
                 get_nearest_substations(out.subs, train.x, default_max_distance)
             st == DistributeWalk(nearby_subs, train, get_current_power_draw(train),
                                  [subs |-> out.subs, attr |-> NoAttribution])
         IN IF nearby_subs = <<>>
            THEN ProcessTrains(ContinueAfterSkip(Tail(trs)), out)
            ELSE ProcessTrains(
                     Tail(trs),
                     [subs |-> st.subs,
                      attributed |-> [out.attributed EXCEPT ![train.train_id] = st.attr]])

NoneAttributed == [t \in TrainIds |-> NoAttribution]

\* the whole of update_power_distribution for a registry and a train order
Distribution(subs, trs) ==
    ProcessTrains(trs, [subs |-> ResetLoads(subs), attributed |-> NoneAttributed])

----------------------------------------------------------------------------
(* State machine *)

NoCall == [op |-> "none", id |-> 0, x |-> 0, max_power |-> 0,
           present |-> FALSE, raised |-> FALSE]
NoQuery == [asked |-> FALSE, position |-> 0, max_distance |-> 0, result |-> <<>>]

\* NetworkController.__init__, and main's choice of the cruising power
Init ==
    /\ substations = <<>>
    /\ trains = <<>>
    /\ track_length = 0
    /\ power_config \in {MakePowerConfig(c) : c \in CruisingPowers}
    /\ pc = "config"
    /\ attributed = NoneAttributed
    /\ rerun = FALSE
    /\ added = {}
    /\ lastCall = NoCall
    /\ query = NoQuery

\* a slip: the track length follows the last substation added
LastCoordinate(length, x) == x

\* self.track_length = max(self.track_length, substation.position.x)
NewTrackLength(length, x) == Max(length, x)

\* NetworkController.add_substation
AddSubstation(sub_id, max_power, x) ==
    /\ pc = "config"
    /\ substations' = PutSubstation(substations, NewSubstation(sub_id, max_power, x))
    /\ track_length' = NewTrackLength(track_length, x)
    /\ added' = added \cup {x}
    /\ lastCall' = [op |-> "add_substation", id |-> sub_id,
                    x |-> x, max_power |-> max_power,
                    present |-> IndexOfSub(substations, sub_id) # 0,
                    raised |-> FALSE]
    /\ query' = NoQuery
    /\ UNCHANGED <<trains, power_config, pc, attributed, rerun>>

\* NetworkController.add_train
AddTrain(train_id, x) ==
    /\ pc = "config"
    /\ trains' = PutTrain(trains, NewTrain(train_id, x))
    /\ lastCall' = [op |-> "add_train", id |-> train_id,
                    x |-> x, max_power |-> 0,
                    present |-> IndexOfTrain(trains, train_id) # 0,
                    raised |-> FALSE]
    /\ query' = NoQuery
    /\ UNCHANGED <<substations, track_length, power_config, pc, attributed, rerun,
                   added>>

\* main's timestep, first half: controller.update_power_distribution()
UpdatePowerDistribution ==
    /\ pc \in {"config", "driving", "boundary"}
    /\ LET out == Distribution(substations, trains)
       IN /\ substations' = out.subs
          /\ attributed' = out.attributed
    /\ pc' = "allocated"
    /\ rerun' = (pc = "boundary")
    /\ lastCall' = NoCall
    /\ query' = NoQuery
    /\ UNCHANGED <<trains, track_length, power_config, added>>

\* main's timestep, second half: update_congestion_status on every substation
UpdateCongestion ==
    /\ pc = "allocated"
    /\ substations' = [i \in DOMAIN substations |->
                          update_congestion_status(substations[i])]
    /\ pc' = "boundary"
    /\ attributed' = NoneAttributed
    /\ rerun' = FALSE
    /\ UNCHANGED <<trains, track_length, power_config, added, lastCall, query>>

\* Train.move_to, called by the driving process between timesteps
MoveTo(i, x) ==
    /\ pc \in {"driving", "boundary"}
    /\ i \in DOMAIN trains
    /\ trains[i].x # x
    /\ trains' = [trains EXCEPT ![i].x = x]
    /\ pc' = "driving"
    /\ UNCHANGED <<substations, track_length, power_config, attributed, rerun,
                   added, lastCall, query>>

\* train.current_phase = phase, set by the driving process between timesteps
SetPhase(i, phase) ==
    /\ pc \in {"driving", "boundary"}
    /\ i \in DOMAIN trains
    /\ trains[i].current_phase # phase
    /\ trains' = [trains EXCEPT ![i].current_phase = phase]
    /\ pc' = "driving"
    /\ UNCHANGED <<substations, track_length, power_config, attributed, rerun,
                   added, lastCall, query>>

\* a call of get_nearest_substations(position, max_distance)
Query(position, max_distance) ==
    /\ pc = "config"
    /\ query' = [asked |-> TRUE, position |-> position, max_distance |-> max_distance,
                 result |-> get_nearest_substations(substations, position, max_distance)]
    /\ UNCHANGED <<substations, trains, track_length, power_config, pc,
                   attributed, rerun, added, lastCall>>

Next ==
    \/ \E s \in SubIds, m \in Thresholds, x \in SubPositions :
          s <= Len(substations) + 1 /\ AddSubstation(s, m, x)
    \/ \E t \in TrainIds, x \in TrainPositions :
          t <= Len(trains) + 1 /\ AddTrain(t, x)
    \/ UpdatePowerDistribution
    \/ UpdateCongestion
    \/ \E i \in 1..NumTrains, x \in TrainPositions : MoveTo(i, x)
    \/ \E i \in 1..NumTrains, p \in TrainPhase : SetPhase(i, p)

Spec == Init /\ [][Next]_vars

\* the registry and the queries alone, for get_nearest_substations
NextNearest ==
    \/ \E s \in SubIds, m \in Thresholds, x \in SubPositions : AddSubstation(s, m, x)
    \/ \E p \in QueryPositions, d \in QueryDistances : Query(p, d)

SpecNearest == Init /\ [][NextNearest]_vars

TypeOK ==
    /\ pc \in {"config", "allocated", "boundary", "driving"}
    /\ \A i \in DOMAIN substations : substations[i].sub_id \in SubIds
    /\ \A i \in DOMAIN trains : trains[i].train_id \in TrainIds

----------------------------------------------------------------------------
(* Vocabulary of the properties *)

Loads(subs) == [i \in DOMAIN subs |-> subs[i].current_load]

FlagsFresh ==
    \A i \in DOMAIN substations :
        substations[i].is_congested <=>
            (substations[i].current_load > substations[i].max_power)

Draw(i) == get_current_power_draw(trains[i])

\* what the pass just made attributed to train i, over all substations
TotalAttributed(i) == SumOver(attributed[trains[i].train_id], SubIds)

InRange(sub, train) == Abs(sub.x - train.x) <= 10

HasStationInRange(train) ==
    \E j \in DOMAIN substations : InRange(substations[j], train)

\* the raw contribution D * (10 - d) / 10 of a substation at distance d
Raw(D, d) == (D * (10 - d)) \div 10

----------------------------------------------------------------------------
(* C1 *)

\* C1 as claimed: whenever update_power_distribution has returned, every
\* substation's congestion flag is true iff its load strictly exceeds max_power.
C1_FreshOnReturn ==
    pc \in {"allocated", "boundary"} => FlagsFresh

\* C1 as amended: once the timestep has also run update_congestion_status on
\* every substation (the tick boundary), and while the driving process changes
\* trains before the next pass, every substation's congestion flag is true iff
\* its load strictly exceeds max_power.
C1_FreshAtTickBoundary ==
    pc \in {"boundary", "driving"} => FlagsFresh

C1_Witness ==
    /\ pc = "boundary"
    /\ \E i \in DOMAIN substations : substations[i].is_congested
    /\ \E i \in DOMAIN substations :
           /\ substations[i].current_load = substations[i].max_power
           /\ ~substations[i].is_congested

----------------------------------------------------------------------------
(* C2 *)

\* C2 as claimed: in any phase, the load attributed to a train over all
\* substations during a pass never exceeds the train's current power draw.
C2_WithinDraw ==
    pc = "allocated" =>
        \A i \in DOMAIN trains : TotalAttributed(i) <= Draw(i)

\* C2 as amended: the load attributed to a train over all substations during a
\* pass never exceeds the larger of the train's current power draw and zero
\* (a braking train with a negative draw is attributed exactly zero).
C2_WithinPositiveDraw ==
    pc = "allocated" =>
        \A i \in DOMAIN trains :
            /\ TotalAttributed(i) <= Max(Draw(i), 0)
            /\ Draw(i) < 0 => TotalAttributed(i) = 0

C2_Witness ==
    /\ pc = "allocated"
    /\ \E i \in DOMAIN trains : Draw(i) > 0 /\ TotalAttributed(i) = Draw(i)
    /\ \E i \in DOMAIN trains :
           /\ Draw(i) < 0
           /\ HasStationInRange(trains[i])
           /\ TotalAttributed(i) = 0

----------------------------------------------------------------------------
(* C3 *)

\* C3: for a train with positive draw D whose in-range substations in
\* ascending distance are s1..sk with raw contributions c_i = D*(10-d_i)/10,
\* the pass attributes to s_i exactly min(c_i, D - what s1..s_(i-1) got) and
\* nothing to any other substation; the total is min(D, c_1+...+c_k); a
\* substation gets load only if every nearer in-range one got its full raw
\* contribution; substations at 0 and 8 with the train at 4 drawing 10 MW get
\* 6 MW and 4 MW.
C3_GreedyAllocation ==
    pc = "allocated" =>
        \A i \in DOMAIN trains :
            LET train == trains[i]
                D == Draw(i)
                a == attributed[train.train_id]
                near == get_nearest_substations(substations, train.x, 10)
                c == [k \in DOMAIN near |-> Raw(D, near[k].distance)]
                got == [k \in DOMAIN near |-> a[near[k].sub_id]]
            IN D > 0 =>
                /\ \A k \in DOMAIN near :
                       got[k] = Min(c[k], D - SumSeq(SubSeq(got, 1, k - 1)))
                /\ \A s \in SubIds :
                       (\A k \in DOMAIN near : near[k].sub_id # s) => a[s] = 0
                /\ SumOver(a, SubIds) = Min(D, SumSeq(c))
                /\ \A p, q \in DOMAIN substations :
                       ( /\ InRange(substations[p], train)
                         /\ InRange(substations[q], train)
                         /\ a[substations[q].sub_id] > 0
                         /\ Abs(substations[p].x - train.x)
                                < Abs(substations[q].x - train.x) )
                       => a[substations[p].sub_id] =
                              Raw(D, Abs(substations[p].x - train.x))
                /\ ( /\ Len(substations) = 2
                     /\ substations[1].x = 0
                     /\ substations[2].x = 8
                     /\ train.x = 4
                     /\ D = MW(10) )
                   => /\ a[substations[1].sub_id] = MW(6)
                      /\ a[substations[2].sub_id] = MW(4)

C3_Witness ==
    /\ pc = "allocated"
    /\ Len(substations) = 2
    /\ substations[1].x = 0
    /\ substations[2].x = 8
    /\ \E i \in DOMAIN trains :
           /\ trains[i].x = 4
           /\ Draw(i) = MW(10)
           /\ attributed[trains[i].train_id][substations[1].sub_id] = MW(6)
           /\ attributed[trains[i].train_id][substations[2].sub_id] = MW(4)

----------------------------------------------------------------------------
(* C4 *)

\* C4: a train with no substation within distance 10 attributes no load, and
\* the pass still handles every other train: the loads it leaves are the loads
\* of a pass over the registry without the out-of-range trains.
C4_OutOfRangeSkipped ==
    pc = "allocated" =>
        /\ \A i \in DOMAIN trains :
               ~HasStationInRange(trains[i]) =>
                   attributed[trains[i].train_id] = NoAttribution
        /\ Loads(substations) =
               Loads(Distribution(substations,
                                  SelectSeq(trains, HasStationInRange)).subs)

C4_Witness ==
    /\ pc = "allocated"
    /\ Len(trains) >= 2
    /\ ~HasStationInRange(trains[1])
    /\ HasStationInRange(trains[2])
    /\ TotalAttributed(2) > 0
    /\ \E j \in DOMAIN substations : substations[j].current_load > 0

----------------------------------------------------------------------------
(* C5 *)

\* C5: get_nearest_substations(position, max_distance) returns exactly the
\* registered substations at distance <= max_distance, each once, paired with
\* that distance, in non-decreasing distance; equal distances keep the
\* insertion order of the registry.
C5_NearestExactSortedStable ==
    query.asked =>
        LET r == query.result
            inRange == {j \in DOMAIN substations :
                           Abs(substations[j].x - query.position)
                               <= query.max_distance}
        IN /\ {r[k].sub_id : k \in DOMAIN r} =
                  {substations[j].sub_id : j \in inRange}
           /\ Len(r) = Cardinality(inRange)
           /\ \A k \in DOMAIN r :
                  \E j \in inRange :
                      /\ substations[j].sub_id = r[k].sub_id
                      /\ r[k].distance = Abs(substations[j].x - query.position)
           /\ \A k, l \in DOMAIN r :
                  k < l =>
                      /\ r[k].distance <= r[l].distance
                      /\ r[k].distance = r[l].distance =>
                             IndexOfSub(substations, r[k].sub_id)
                                 < IndexOfSub(substations, r[l].sub_id)

C5_Witness ==
    /\ query.asked
    /\ Len(substations) = 2
    /\ substations[1].sub_id = 2
    /\ Len(query.result) = 2
    /\ query.result[1].sub_id = 2
    /\ query.result[1].distance = query.result[2].distance

----------------------------------------------------------------------------
(* C6 *)

FreshRegistry ==
    [i \in DOMAIN substations |->
        NewSubstation(substations[i].sub_id, substations[i].max_power,
                      substations[i].x)]

\* C6: the loads a pass leaves are those of a pass over the same substations
\* with no earlier load, whatever earlier passes left; and a pass made at a
\* tick boundary with nothing changed since leaves every load as it was.
C6_PureRecomputation ==
    [][(pc' = "allocated" /\ pc # "allocated") =>
          /\ Loads(substations') = Loads(Distribution(FreshRegistry, trains).subs)
          /\ pc = "boundary" => Loads(substations') = Loads(substations)]_vars

C6_Witness ==
    /\ pc = "allocated"
    /\ rerun
    /\ \E j \in DOMAIN substations : substations[j].current_load > 0

----------------------------------------------------------------------------
(* C7 *)

\* C7 as claimed: after any add_substation calls, track_length equals the
\* maximum coordinate among the substations added so far, and it never
\* decreases.
C7_TrackLengthIsMax ==
    [][/\ added' # {} => track_length' = SetMax(added')
       /\ track_length' >= track_length]_vars

\* C7 as amended: after any add_substation calls, track_length equals the
\* maximum of 0 and the coordinates of the substations added so far, and it
\* never decreases.
C7_TrackLengthIsMaxWithZero ==
    [][/\ track_length' = SetMax(added' \cup {0})
       /\ track_length' >= track_length]_vars

C7_Witness ==
    /\ lastCall.op = "add_substation"
    /\ lastCall.present
    /\ track_length = 8
    /\ \A j \in DOMAIN substations : substations[j].x < 8

----------------------------------------------------------------------------
(* C8 *)

\* C8 as claimed: registering a substation or a train whose identifier is
\* already present fails at registration instead of being accepted.
C8_DuplicateRejected ==
    lastCall.present => lastCall.raised

\* C8 as amended: registering a substation or a train whose identifier is
\* already present does not fail: the new object replaces the one registered
\* under that identifier, at its place, and the registry keeps one entry per
\* identifier.
C8_DuplicateReplaces ==
    /\ \A i, j \in DOMAIN substations :
           substations[i].sub_id = substations[j].sub_id => i = j
    /\ \A i, j \in DOMAIN trains :
           trains[i].train_id = trains[j].train_id => i = j
    /\ lastCall.op = "add_substation" =>
           /\ ~lastCall.raised
           /\ \E j \in DOMAIN substations :
                  substations[j] =
                      NewSubstation(lastCall.id, lastCall.max_power, lastCall.x)
    /\ lastCall.op = "add_train" =>
           /\ ~lastCall.raised
           /\ \E j \in DOMAIN trains : trains[j] = NewTrain(lastCall.id, lastCall.x)

C8_Witness ==
    /\ lastCall.op = "add_substation"
    /\ lastCall.present
    /\ Len(substations) = 2
    /\ substations[1].sub_id = lastCall.id
    /\ substations[1].x = lastCall.x
    /\ lastCall.x # 0

----------------------------------------------------------------------------
(* C9 *)

\* C9: every substation's load is >= 0 in every reachable state; a train whose
\* draw is zero or negative attributes no load, and a train with positive draw
\* attributes only non-negative amounts.
C9_LoadsNonNegative ==
    /\ \A j \in DOMAIN substations : substations[j].current_load >= 0
    /\ \A t \in TrainIds, s \in SubIds : attributed[t][s] >= 0
    /\ pc = "allocated" =>
           \A i \in DOMAIN trains :
               Draw(i) <= 0 => attributed[trains[i].train_id] = NoAttribution

C9_Witness ==
    /\ pc = "allocated"
    /\ \E i \in DOMAIN trains :
           /\ trains[i].current_phase = "braking"
           /\ Draw(i) < 0
           /\ HasStationInRange(trains[i])
    /\ \E j \in DOMAIN substations : substations[j].current_load > 0

----------------------------------------------------------------------------
(* C10 *)

=============================================================================
